---- MODULE Spec2Model ----
(***************************************************************************)
(* Model of the FIDE backend: the board catalog (boards.rs), the template  *)
(* tree builder (templates.rs) and the in-memory project registry          *)
(* (projects.rs), driven by concurrently running request handlers.         *)
(*                                                                         *)
(* Strings that take part in placeholder substitution are sequences of     *)
(* tokens; a path is the sequence of its components, relative to the       *)
(* working directory of the process.  Option values are sequences of       *)
(* length 0 (None) or 1 (Some).                                            *)
(***************************************************************************)
EXTENDS Integers, Sequences, FiniteSets, TLC

\* ------------------------------------------------------------------ bounds
\* number of request handlers that run concurrently
NumHandlers == 2
\* number of v4 UUIDs the process generates (two per create)
MaxUuid == 4
\* number of changes the environment makes to the filesystem
MaxFsChanges == 1
\* number of requests served over the process lifetime
MaxCalls == 3

Handlers == 1..NumHandlers
Uuids == 1..MaxUuid

\* ------------------------------------------------------ strings and paths
\* templates.rs:108, the literal "{{PROJECT_NAME}}"
Placeholder == <<"{{", "PROJECT_NAME", "}}">>

None == <<>>
Some(x) == <<x>>

\* boards.rs:18, Path::new("templates")
TemplatesDir == <<"templates">>

\* the directories under templates/ in the modelled filesystem
BoardDirs == {"motor_sim", "stm32"}

\* boards.rs:30-33, format!("templates/{}", file_name)
TemplatePathOf(d) == TemplatesDir \o <<d>>

\* every location of the modelled filesystem
AllPaths ==
    {<<>>, <<"templates">>, <<"etc">>, <<"etc", "passwd">>}
    \cup {TemplatePathOf(d) : d \in BoardDirs}
    \cup {TemplatePathOf(d) \o <<"board.json">> : d \in BoardDirs}
    \cup {TemplatePathOf(d) \o <<"a.txt">> : d \in BoardDirs}
    \cup {<<"templates", "motor_sim", "b.txt">>,
          <<"templates", "motor_sim", "Z">>,
          <<"templates", "motor_sim", "Z", "main.rs">>,
          <<"templates", "stm32", "src">>}

\* byte order of the file names of the modelled filesystem (OsStr::cmp)
NameRank(n) ==
    CASE n = "Z" -> 1
      [] n = "a.txt" -> 2
      [] n = "b.txt" -> 3
      [] n = "board.json" -> 4
      [] n = "etc" -> 5
      [] n = "main.rs" -> 6
      [] n = "motor_sim" -> 7
      [] n = "passwd" -> 8
      [] n = "src" -> 9
      [] n = "stm32" -> 10
      [] n = "templates" -> 11

NoEntry == [kind |-> "none", content |-> <<>>]
DirEntry == [kind |-> "dir", content |-> <<>>]
FileEntry(c) == [kind |-> "file", content |-> c]

\* text of a board.json that deserialises to a BoardConfig with this id
DescriptorJson(id) == <<"board_json", id>>

\* the ids the descriptors on disk may carry
DescriptorIds == {"b1", "b2"}

\* the filesystem at process start; the descriptor of stm32 carries id2
InitialFs(id2) ==
    [p \in AllPaths |->
        CASE p \in {<<>>, <<"templates">>, <<"etc">>,
                    <<"templates", "motor_sim">>, <<"templates", "stm32">>,
                    <<"templates", "motor_sim", "Z">>,
                    <<"templates", "stm32", "src">>} -> DirEntry
          [] p = <<"etc", "passwd">> -> FileEntry(<<"root:x:0">>)
          [] p = <<"templates", "motor_sim", "board.json">> ->
                FileEntry(DescriptorJson("b1"))
          [] p = <<"templates", "stm32", "board.json">> ->
                FileEntry(DescriptorJson(id2))
          [] p = <<"templates", "motor_sim", "a.txt">> ->
                FileEntry(<<"Hello ">> \o Placeholder)
          [] p = <<"templates", "motor_sim", "b.txt">> ->
                FileEntry(Placeholder \o Placeholder \o <<"{{", "PROJECT_NAME">>)
          [] p = <<"templates", "motor_sim", "Z", "main.rs">> ->
                FileEntry(<<"fn main">>)
          [] p = <<"templates", "stm32", "a.txt">> ->
                FileEntry(<<"{{">> \o Placeholder \o <<"}}">>)]

IsPrefix(a, b) == Len(a) <= Len(b) /\ SubSeq(b, 1, Len(a)) = a
Parent(p) == SubSeq(p, 1, Len(p) - 1)
FileName(p) == p[Len(p)]

\* ---------------------------------------------------------- request inputs
ProjectNames == {<<"Foo">>, <<"PROJECT_NAME", "}}">>}
BoardIdInputs == {"b1", "b2"}
FilePathInputs ==
    {<<"a.txt">>, <<"b.txt">>, <<"..", "..", "etc", "passwd">>,
     <<"Z", "..", "a.txt">>}

\* ------------------------------------------------------------ boards.rs
\* serde_json::from_str::<BoardConfig>: Some(id) of a parsable descriptor
ParseBoardConfig(content) ==
    IF Len(content) = 2 /\ content[1] = "board_json"
    THEN Some(content[2]) ELSE None

\* the test of boards.rs:24-28 on one child of templates/: a directory
\* holding a readable, parsable board.json
HasValidDescriptor(f, d) ==
    /\ f[TemplatePathOf(d)].kind = "dir"
    /\ f[TemplatePathOf(d) \o <<"board.json">>].kind = "file"
    /\ ParseBoardConfig(f[TemplatePathOf(d) \o <<"board.json">>].content) # None

\* the orders in which fs::read_dir may yield the children of templates/
ScanOrders ==
    {o \in [1..Cardinality(BoardDirs) -> BoardDirs] :
        \A i, j \in DOMAIN o : i # j => o[i] # o[j]}

\* a listing that keeps every child directory in which a board.json exists
get_available_boards_unfiltered(f, order) ==
    IF f[TemplatesDir].kind # "dir" THEN <<>>
    ELSE LET found == SelectSeq(order, LAMBDA d :
                        /\ f[TemplatePathOf(d)].kind = "dir"
                        /\ f[TemplatePathOf(d) \o <<"board.json">>].kind = "file")
         IN  [i \in 1..Len(found) |->
                LET parsed == ParseBoardConfig(
                        f[TemplatePathOf(found[i]) \o <<"board.json">>].content)
                IN  [id |-> IF parsed = None THEN "" ELSE parsed[1],
                     template_path |-> TemplatePathOf(found[i])]]

\* get_available_boards, for one order of the directory scan
get_available_boards(f, order) ==
    IF f[TemplatesDir].kind # "dir" THEN <<>>
    ELSE LET valid == SelectSeq(order, LAMBDA d : HasValidDescriptor(f, d))
         IN  [i \in 1..Len(valid) |->
                [id |-> ParseBoardConfig(
                          f[TemplatePathOf(valid[i]) \o <<"board.json">>].content)[1],
                 template_path |-> TemplatePathOf(valid[i])]]

\* get_board_by_id that falls back to the first board of the scan when no
\* id matches
get_board_by_id_fallback(f, order, board_id) ==
    LET boards == get_available_boards(f, order)
        hits == SelectSeq(boards, LAMBDA b : b.id = board_id)
    IN  IF hits # <<>> THEN Some(hits[1])
        ELSE IF boards # <<>> THEN Some(boards[1]) ELSE None

\* get_board_by_id that keeps the last board of the scan whose id matches
get_board_by_id_last(f, order, board_id) ==
    LET boards == get_available_boards(f, order)
        hits == SelectSeq(boards, LAMBDA b : b.id = board_id)
    IN  IF hits = <<>> THEN None ELSE Some(hits[Len(hits)])

\* get_board_by_id: the first board of the scan whose id matches
get_board_by_id(f, order, board_id) ==
    LET boards == get_available_boards(f, order)
        hits == SelectSeq(boards, LAMBDA b : b.id = board_id)
    IN  IF hits = <<>> THEN None ELSE Some(hits[1])

\* ------------------------------------------------------------ templates.rs
\* str::replacen with a count of 1: only the first match is replaced
RECURSIVE StrReplaceFirst(_, _, _)
StrReplaceFirst(s, from, to) ==
    IF Len(s) < Len(from) THEN s
    ELSE IF SubSeq(s, 1, Len(from)) = from
         THEN to \o SubSeq(s, Len(from) + 1, Len(s))
         ELSE <<s[1]>> \o StrReplaceFirst(Tail(s), from, to)

\* str::replace: the non-overlapping matches of from, scanned left to right
RECURSIVE StrReplace(_, _, _)
StrReplace(s, from, to) ==
    IF Len(s) < Len(from) THEN s
    ELSE IF SubSeq(s, 1, Len(from)) = from
         THEN to \o StrReplace(SubSeq(s, Len(from) + 1, Len(s)), from, to)
         ELSE <<s[1]>> \o StrReplace(Tail(s), from, to)

\* path resolution done by the operating system when a file is opened:
\* the location reached from cur by the components of rest, or None
RECURSIVE Walk(_, _, _)
Walk(f, cur, rest) ==
    IF rest = <<>> THEN Some(cur)
    ELSE IF f[cur].kind # "dir" THEN None
    ELSE IF Head(rest) = ".."
         THEN IF cur = <<>> THEN None ELSE Walk(f, Parent(cur), Tail(rest))
         ELSE IF cur \o <<Head(rest)>> \in AllPaths
                 /\ f[cur \o <<Head(rest)>>].kind # "none"
              THEN Walk(f, cur \o <<Head(rest)>>, Tail(rest))
              ELSE None

\* fs::read_to_string(full_path)
read_to_string(f, full_path) ==
    LET loc == Walk(f, <<>>, full_path)
    IN  IF loc = None THEN [ok |-> FALSE, val |-> <<>>, err |-> "NotFound"]
        ELSE IF f[loc[1]].kind = "dir"
             THEN [ok |-> FALSE, val |-> <<>>, err |-> "IsADirectory"]
             ELSE [ok |-> TRUE, val |-> f[loc[1]].content, err |-> ""]

Ok(v) == [kind |-> "ok", val |-> v, err |-> <<>>]
Err(e) == [kind |-> "err", val |-> <<>>, err |-> e]
NoResult == [kind |-> "none", val |-> <<>>, err |-> <<>>]

\* get_template_file_content
get_template_file_content(f, template_path, file_path, project_name) ==
    LET full_path == template_path \o file_path
        content == read_to_string(f, full_path)
    IN  IF ~content.ok
        THEN Err(<<"Failed to read file ", full_path, content.err>>)
        ELSE Ok(StrReplace(content.val, Placeholder, project_name))

\* the existing children of dir
Children(f, dir) ==
    {q \in AllPaths : Len(q) = Len(dir) + 1 /\ Parent(q) = dir
                      /\ f[q].kind # "none"}

\* WalkDir::sort_by_file_name over a set of sibling paths
SortByFileName(S) ==
    [i \in 1..Cardinality(S) |->
        CHOOSE x \in S :
            Cardinality({y \in S : NameRank(FileName(y)) < NameRank(FileName(x))})
                = i - 1]

\* a walk that yields the directories before the files, each group by name
WalkDirDirsFirst(f, dir) ==
    SortByFileName({q \in Children(f, dir) : f[q].kind = "dir"})
    \o SortByFileName({q \in Children(f, dir) : f[q].kind # "dir"})

\* templates.rs:62-65, WalkDir::new(dir).min_depth(1).max_depth(1)
\* .sort_by_file_name(): the entries of dir in the order of their names
WalkDir(f, dir) == SortByFileName(Children(f, dir))

\* build_tree_recursive: the node of every entry of dir, in the order of the
\* sorted walk
RECURSIVE build_tree_recursive(_, _, _)
build_tree_recursive(f, dir, base_path) ==
    LET node == [path \in Children(f, dir) |->
                    [name |-> FileName(path),
                     path |-> SubSeq(path, Len(base_path) + 1, Len(path)),
                     is_directory |-> f[path].kind = "dir",
                     children |-> IF f[path].kind = "dir"
                                  THEN Some(build_tree_recursive(f, path, base_path))
                                  ELSE None]]
        entries == WalkDir(f, dir)
    IN  [i \in 1..Len(entries) |-> node[entries[i]]]

\* generate_file_tree without the test that the template path exists
generate_file_tree_unchecked(f, template_path) ==
    Ok(build_tree_recursive(f, template_path, template_path))

\* generate_file_tree
generate_file_tree(f, template_path) ==
    IF f[template_path].kind = "none"
    THEN Err(<<"Template path does not exist: ", template_path>>)
    ELSE Ok(build_tree_recursive(f, template_path, template_path))

\* ------------------------------------------------------------ projects.rs
\* an identifier generator that repeats its values
new_v4_repeating(count) == (count % 2) + 1

\* Uuid::new_v4: distinct calls yield distinct values; the value of the
\* call made after count earlier calls is named count + 1 (values of a
\* collision-free generator are interchangeable up to renaming)
new_v4(count) == count + 1

\* a ProjectInfo whose template_path is left at its default
MakeProjectInfoPartial(project_id, container_id, project_name, board_id, template_path) ==
    [project_id |-> project_id,
     container_id |-> container_id,
     project_name |-> project_name,
     board_id |-> board_id,
     template_path |-> <<>>]

\* the ProjectInfo built at projects.rs:58-64
MakeProjectInfo(project_id, container_id, project_name, board_id, template_path) ==
    [project_id |-> project_id,
     container_id |-> container_id,
     project_name |-> project_name,
     board_id |-> board_id,
     template_path |-> template_path]

\* a response that carries the container id in the place of the project id
MakeResponseSwapped(project_id, container_id, file_tree) ==
    [project_id |-> container_id,
     container_id |-> project_id,
     file_tree |-> file_tree,
     workspace_url |-> <<"/workspace/", container_id>>]

\* the CreateProjectResponse built at projects.rs:71-76
MakeResponse(project_id, container_id, file_tree) ==
    [project_id |-> project_id,
     container_id |-> container_id,
     file_tree |-> file_tree,
     workspace_url |-> <<"/workspace/", project_id>>]

\* an insertion that drops the entries the map held
HashMapInsertLossy(m, k, v) == [x \in {k} |-> v]

\* HashMap::insert
HashMapInsert(m, k, v) ==
    [x \in DOMAIN m \cup {k} |-> IF x = k THEN v ELSE m[x]]

\* a lookup that answers an absent key with some entry of the map
HashMapGetAny(m, k) ==
    IF k \in DOMAIN m THEN Some(m[k])
    ELSE IF DOMAIN m # {} THEN Some(m[CHOOSE x \in DOMAIN m : TRUE]) ELSE None

\* HashMap::get
HashMapGet(m, k) == IF k \in DOMAIN m THEN Some(m[k]) ELSE None

EmptyMap == [x \in {} |-> x]

\* the history m extended by the entry k -> v
HistoryPut(m, k, v) == [x \in DOMAIN m \cup {k} |-> IF x = k THEN v ELSE m[x]]

\* --------------------------------------- templates/motor_sim: telemetry
\* The motor simulation is a separate program: its emitter sends the register
\* messages of each tick on a broadcast channel, and one task per viewer
\* connection forwards the messages of the channel to the viewer's socket.

\* number of viewer connections accepted over the lifetime of the simulation
NumViewers == 2
\* number of ticks of the simulation loop
MaxTicks == 1
\* number of messages the broadcast channel retains (motor_sim main.rs:28
\* creates the channel with 100), scaled down
ChannelCapacity == 3

Viewers == 1..NumViewers

\* dlt_format.rs:6-12, the registers in the order they are formatted
Registers == <<"SPEED", "TORQUE", "TEMP", "CURRENT", "STATUS">>

\* format_as_dlt_registers: one message per register; the telemetry of a
\* tick is named by the number of the tick
format_as_dlt_registers(telemetry) ==
    [i \in 1..Len(Registers) |-> <<"REG", Registers[i], telemetry>>]

\* websocket.rs:44-47, the message sent to a viewer when it has connected
Welcome == <<"connected", "Connected to motor simulation">>

\* a subscription that starts at the oldest message the channel retains
subscribe_replaying(tail) ==
    IF tail > ChannelCapacity THEN tail - ChannelCapacity + 1 ELSE 1

\* broadcast::Sender::subscribe on a channel that has carried tail messages:
\* the position of the first message the new receiver will see
subscribe(tail) == tail + 1

VARIABLES
    ticks,      \* number of ticks the simulation loop has started
    outbox,     \* dlt_messages of the current tick not sent yet
    sent,       \* the messages sent on the broadcast channel, in order
    vpc,        \* per viewer: the position of its handle_connection
    peer,       \* per viewer: whether the remote end of the socket is open
    rx,         \* per viewer: position in sent of the next message of its receiver
    send_task,  \* per viewer: state of the forwarding task
    ws_out,     \* per viewer: the text messages written to its socket, in order
    emitted_before \* history: number of messages sent when the viewer subscribed

motorVars == <<ticks, outbox, sent, vpc, peer, rx, send_task, ws_out,
               emitted_before>>

\* the state of the simulation after the channel is created (main.rs:28)
MotorSimInit ==
    /\ ticks = 0
    /\ outbox = <<>>
    /\ sent = <<>>
    /\ vpc = [v \in Viewers |-> "absent"]
    /\ peer = [v \in Viewers |-> "none"]
    /\ rx = [v \in Viewers |-> 0]
    /\ send_task = [v \in Viewers |-> "none"]
    /\ ws_out = [v \in Viewers |-> <<>>]
    /\ emitted_before = [v \in Viewers |-> 0]

\* ------------------------------------------------- the backend: state
VARIABLES
    fs,          \* the filesystem: location -> entry
    fsChanges,   \* number of changes the environment has made to fs
    projects,    \* ProjectManager.projects: project_id -> ProjectInfo
    lock,        \* the RwLock around projects: its writer (0: none) and readers
    uuidCount,   \* number of calls of Uuid::new_v4 so far
    calls,       \* number of requests started so far
    pc,          \* per handler: the statement it is about to execute
    frame,       \* per handler: operation, arguments and local variables
    result,      \* per handler: the value its operation returned
    issued,      \* history: project_id -> the arguments of the create that generated it
    returned,    \* history: the responses successful creates have returned, in order
    aborted      \* history: the project_ids generated by creates that failed

vars == <<fs, fsChanges, projects, lock, uuidCount, calls, pc, frame, result,
          issued, returned, aborted>>

IdleFrame ==
    [op |-> "none",
     project_name |-> <<>>, board_id |-> "", \* arguments of create_project
     arg_project_id |-> 0, file_path |-> <<>>, \* arguments of get_file_content
     template_path |-> <<>>,                 \* board.template_path
     project_id |-> 0, container_id |-> 0,
     file_tree |-> <<>>,
     project |-> None,                       \* the record found by the lookup
     opened |-> None]                        \* the path passed to read_to_string

\* the state of the process after ProjectManager::new, before any request
ProcessInit ==
    /\ fsChanges = 0
    /\ projects = EmptyMap
    /\ lock = [writer |-> 0, readers |-> {}]
    /\ uuidCount = 0
    /\ calls = 0
    /\ pc = [p \in Handlers |-> "idle"]
    /\ frame = [p \in Handlers |-> IdleFrame]
    /\ result = [p \in Handlers |-> NoResult]
    /\ issued = EmptyMap
    /\ returned = <<>>
    /\ aborted = {}
    /\ MotorSimInit

Init ==
    /\ \E id2 \in DescriptorIds : fs = InitialFs(id2)
    /\ ProcessInit

\* a request is dispatched to the free handler of the lowest number (the
\* handlers are interchangeable tasks of the runtime)
Free(p) == pc[p] \in {"idle", "done"}

Dispatched(p) ==
    /\ Free(p)
    /\ \A q \in Handlers : q < p => ~Free(q)

\* the ids a file request may name: every identifier generated so far and
\* the next one to be generated, which stands for the ids not generated yet
ProjectIdInputs == {id \in Uuids : id <= uuidCount + 1}

\* creates that have not generated their identifiers yet
PendingCreates == {p \in Handlers : pc[p] = "board"}

\* ---- create_project -----------------------------------------------------
\* a handler is entered with the arguments of a create request
CallCreate(p, project_name, board_id) ==
    /\ Dispatched(p)
    /\ calls < MaxCalls
    /\ uuidCount + 2 * (Cardinality(PendingCreates) + 1) <= MaxUuid
    /\ calls' = calls + 1
    /\ frame' = [frame EXCEPT ![p] =
            [IdleFrame EXCEPT !.op = "create", !.project_name = project_name,
                              !.board_id = board_id]]
    /\ pc' = [pc EXCEPT ![p] = "board"]
    /\ result' = [result EXCEPT ![p] = NoResult]
    /\ UNCHANGED <<fs, fsChanges, projects, lock, uuidCount, issued, returned,
                   aborted>>
    /\ UNCHANGED motorVars

\* create_project that stores the record as soon as the identifiers exist,
\* before the snapshot and outside the lock
CreateResolveBoardEager(p) ==
    /\ pc[p] = "board"
    /\ \E order \in ScanOrders :
          LET board == get_board_by_id(fs, order, frame[p].board_id)
              project_id == new_v4(uuidCount)
              container_id == new_v4(uuidCount + 1)
          IN  IF board = None
              THEN /\ result' = [result EXCEPT ![p] =
                          Err(<<"Board not found: ", frame[p].board_id>>)]
                   /\ pc' = [pc EXCEPT ![p] = "done"]
                   /\ UNCHANGED <<frame, uuidCount, issued, projects>>
              ELSE /\ frame' = [frame EXCEPT
                          ![p].template_path = board[1].template_path,
                          ![p].project_id = project_id,
                          ![p].container_id = container_id]
                   /\ issued' = HistoryPut(issued, project_id,
                          [project_name |-> frame[p].project_name,
                           board_id |-> frame[p].board_id,
                           template_path |-> board[1].template_path])
                   /\ projects' = HashMapInsert(projects, project_id,
                          MakeProjectInfo(project_id, container_id,
                              frame[p].project_name, frame[p].board_id,
                              board[1].template_path))
                   /\ uuidCount' = uuidCount + 2
                   /\ pc' = [pc EXCEPT ![p] = "tree"]
                   /\ result' = result
    /\ UNCHANGED <<fs, fsChanges, lock, calls, returned, aborted>>
    /\ UNCHANGED motorVars

\* projects.rs:48-52: the board is resolved; when it exists the two
\* identifiers are generated
CreateResolveBoard(p) ==
    /\ pc[p] = "board"
    /\ \E order \in ScanOrders :
          LET board == get_board_by_id(fs, order, frame[p].board_id)
              project_id == new_v4(uuidCount)
              container_id == new_v4(uuidCount + 1)
          IN  IF board = None
              THEN /\ result' = [result EXCEPT ![p] =
                          Err(<<"Board not found: ", frame[p].board_id>>)]
                   /\ pc' = [pc EXCEPT ![p] = "done"]
                   /\ UNCHANGED <<frame, uuidCount, issued>>
              ELSE /\ frame' = [frame EXCEPT
                          ![p].template_path = board[1].template_path,
                          ![p].project_id = project_id,
                          ![p].container_id = container_id]
                   /\ issued' = HistoryPut(issued, project_id,
                          [project_name |-> frame[p].project_name,
                           board_id |-> frame[p].board_id,
                           template_path |-> board[1].template_path])
                   /\ uuidCount' = uuidCount + 2
                   /\ pc' = [pc EXCEPT ![p] = "tree"]
                   /\ result' = result
    /\ UNCHANGED <<fs, fsChanges, projects, lock, calls, returned, aborted>>
    /\ UNCHANGED motorVars

\* projects.rs:55
CreateSnapshot(p) ==
    /\ pc[p] = "tree"
    /\ LET tree == generate_file_tree(fs, frame[p].template_path)
       IN  IF tree.kind = "err"
           THEN /\ result' = [result EXCEPT ![p] = tree]
                /\ pc' = [pc EXCEPT ![p] = "done"]
                /\ aborted' = aborted \cup {frame[p].project_id}
                /\ frame' = frame
           ELSE /\ frame' = [frame EXCEPT ![p].file_tree = tree.val]
                /\ pc' = [pc EXCEPT ![p] = "wlock"]
                /\ UNCHANGED <<result, aborted>>
    /\ UNCHANGED <<fs, fsChanges, projects, lock, uuidCount, calls, issued,
                   returned>>
    /\ UNCHANGED motorVars

\* projects.rs:66-67, RwLock::write
CreateLockWrite(p) ==
    /\ pc[p] = "wlock"
    /\ lock.writer = 0
    /\ lock.readers = {}
    /\ lock' = [lock EXCEPT !.writer = p]
    /\ pc' = [pc EXCEPT ![p] = "insert"]
    /\ UNCHANGED <<fs, fsChanges, projects, uuidCount, calls, frame, result,
                   issued, returned, aborted>>
    /\ UNCHANGED motorVars

\* an insertion whose write guard lives until the function returns
CreateInsertHolding(p) ==
    /\ pc[p] = "insert"
    /\ projects' = HashMapInsert(projects, frame[p].project_id,
                      MakeProjectInfo(frame[p].project_id, frame[p].container_id,
                                      frame[p].project_name, frame[p].board_id,
                                      frame[p].template_path))
    /\ pc' = [pc EXCEPT ![p] = "resp"]
    /\ UNCHANGED <<fs, fsChanges, lock, uuidCount, calls, frame, result, issued,
                   returned, aborted>>
    /\ UNCHANGED motorVars

\* projects.rs:58-64 and 69: the record is inserted; the write guard is
\* dropped at the end of the statement
CreateInsert(p) ==
    /\ pc[p] = "insert"
    /\ projects' = HashMapInsert(projects, frame[p].project_id,
                      MakeProjectInfo(frame[p].project_id, frame[p].container_id,
                                      frame[p].project_name, frame[p].board_id,
                                      frame[p].template_path))
    /\ lock' = [lock EXCEPT !.writer = 0]
    /\ pc' = [pc EXCEPT ![p] = "resp"]
    /\ UNCHANGED <<fs, fsChanges, uuidCount, calls, frame, result, issued,
                   returned, aborted>>
    /\ UNCHANGED motorVars

\* projects.rs:71-76
CreateReturn(p) ==
    /\ pc[p] = "resp"
    /\ LET response == MakeResponse(frame[p].project_id, frame[p].container_id,
                                    frame[p].file_tree)
       IN  /\ result' = [result EXCEPT ![p] = Ok(response)]
           /\ returned' = Append(returned,
                             [project_id |-> response.project_id,
                              project_name |-> frame[p].project_name,
                              board_id |-> frame[p].board_id])
    /\ pc' = [pc EXCEPT ![p] = "done"]
    /\ UNCHANGED <<fs, fsChanges, projects, lock, uuidCount, calls, frame,
                   issued, aborted>>
    /\ UNCHANGED motorVars

\* ---- get_file_content ---------------------------------------------------
\* a handler is entered with the arguments of a file request
CallGetFile(p, project_id, file_path) ==
    /\ Dispatched(p)
    /\ calls < MaxCalls
    /\ calls' = calls + 1
    /\ frame' = [frame EXCEPT ![p] =
            [IdleFrame EXCEPT !.op = "get_file", !.arg_project_id = project_id,
                              !.file_path = file_path]]
    /\ pc' = [pc EXCEPT ![p] = "rlock"]
    /\ result' = [result EXCEPT ![p] = NoResult]
    /\ UNCHANGED <<fs, fsChanges, projects, lock, uuidCount, issued, returned,
                   aborted>>
    /\ UNCHANGED motorVars

\* projects.rs:84, RwLock::read
GetLockRead(p) ==
    /\ pc[p] = "rlock"
    /\ lock.writer = 0
    /\ lock' = [lock EXCEPT !.readers = @ \cup {p}]
    /\ pc' = [pc EXCEPT ![p] = "lookup"]
    /\ UNCHANGED <<fs, fsChanges, projects, uuidCount, calls, frame, result,
                   issued, returned, aborted>>
    /\ UNCHANGED motorVars

\* a lookup that validates the board of the record against the catalog and
\* treats a record whose board is gone as unknown
GetLookupRevalidating(p) ==
    /\ pc[p] = "lookup"
    /\ \E order \in ScanOrders :
          LET project == HashMapGet(projects, frame[p].arg_project_id)
          IN  IF \/ project = None
                 \/ get_board_by_id(fs, order, project[1].board_id) = None
              THEN /\ result' = [result EXCEPT ![p] =
                          Err(<<"Project not found: ", frame[p].arg_project_id>>)]
                   /\ lock' = [lock EXCEPT !.readers = @ \ {p}]
                   /\ pc' = [pc EXCEPT ![p] = "done"]
                   /\ frame' = frame
              ELSE /\ frame' = [frame EXCEPT ![p].project = project]
                   /\ pc' = [pc EXCEPT ![p] = "read"]
                   /\ UNCHANGED <<result, lock>>
    /\ UNCHANGED <<fs, fsChanges, projects, uuidCount, calls, issued,
                   returned, aborted>>
    /\ UNCHANGED motorVars

\* a lookup that clones the record and drops the read guard before the file
\* is read
GetLookupReleasing(p) ==
    /\ pc[p] = "lookup"
    /\ LET project == HashMapGet(projects, frame[p].arg_project_id)
       IN  IF project = None
           THEN /\ result' = [result EXCEPT ![p] =
                       Err(<<"Project not found: ", frame[p].arg_project_id>>)]
                /\ pc' = [pc EXCEPT ![p] = "done"]
                /\ frame' = frame
           ELSE /\ frame' = [frame EXCEPT ![p].project = project]
                /\ pc' = [pc EXCEPT ![p] = "read"]
                /\ result' = result
    /\ lock' = [lock EXCEPT !.readers = @ \ {p}]
    /\ UNCHANGED <<fs, fsChanges, projects, uuidCount, calls, issued,
                   returned, aborted>>
    /\ UNCHANGED motorVars

\* projects.rs:85-87: an unknown id returns the error, which drops the
\* read guard
GetLookup(p) ==
    /\ pc[p] = "lookup"
    /\ LET project == HashMapGet(projects, frame[p].arg_project_id)
       IN  IF project = None
           THEN /\ result' = [result EXCEPT ![p] =
                       Err(<<"Project not found: ", frame[p].arg_project_id>>)]
                /\ lock' = [lock EXCEPT !.readers = @ \ {p}]
                /\ pc' = [pc EXCEPT ![p] = "done"]
                /\ frame' = frame
           ELSE /\ frame' = [frame EXCEPT ![p].project = project]
                /\ pc' = [pc EXCEPT ![p] = "read"]
                /\ UNCHANGED <<result, lock>>
    /\ UNCHANGED <<fs, fsChanges, projects, uuidCount, calls, issued,
                   returned, aborted>>
    /\ UNCHANGED motorVars

\* a read whose guard on the registry is leaked instead of dropped
GetReadLeaking(p) ==
    /\ pc[p] = "read"
    /\ LET project == frame[p].project[1]
       IN  /\ result' = [result EXCEPT ![p] =
                  get_template_file_content(fs, project.template_path,
                      frame[p].file_path, project.project_name)]
           /\ frame' = [frame EXCEPT ![p].opened =
                  Some(project.template_path \o frame[p].file_path)]
    /\ pc' = [pc EXCEPT ![p] = "done"]
    /\ UNCHANGED <<fs, fsChanges, projects, lock, uuidCount, calls, issued,
                   returned, aborted>>
    /\ UNCHANGED motorVars

\* projects.rs:89-90: the file is read and rendered; the read guard is
\* dropped when the function returns
GetRead(p) ==
    /\ pc[p] = "read"
    /\ LET project == frame[p].project[1]
       IN  /\ result' = [result EXCEPT ![p] =
                  get_template_file_content(fs, project.template_path,
                      frame[p].file_path, project.project_name)]
           /\ frame' = [frame EXCEPT ![p].opened =
                  Some(project.template_path \o frame[p].file_path)]
    /\ lock' = [lock EXCEPT !.readers = @ \ {p}]
    /\ pc' = [pc EXCEPT ![p] = "done"]
    /\ UNCHANGED <<fs, fsChanges, projects, uuidCount, calls, issued,
                   returned, aborted>>
    /\ UNCHANGED motorVars

\* ---- the environment ------------------------------------------------------
\* somebody deletes the board.json of a template directory
RemoveDescriptor(d) ==
    /\ fsChanges < MaxFsChanges
    /\ fs[TemplatePathOf(d) \o <<"board.json">>].kind = "file"
    /\ fs' = [fs EXCEPT ![TemplatePathOf(d) \o <<"board.json">>] = NoEntry]
    /\ fsChanges' = fsChanges + 1
    /\ UNCHANGED <<projects, lock, uuidCount, calls, pc, frame, result, issued,
                   returned, aborted>>
    /\ UNCHANGED motorVars

\* somebody deletes a template directory with everything below it
RemoveTemplate(d) ==
    /\ fsChanges < MaxFsChanges
    /\ fs[TemplatePathOf(d)].kind = "dir"
    /\ fs' = [q \in AllPaths |->
                IF IsPrefix(TemplatePathOf(d), q) THEN NoEntry ELSE fs[q]]
    /\ fsChanges' = fsChanges + 1
    /\ UNCHANGED <<projects, lock, uuidCount, calls, pc, frame, result, issued,
                   returned, aborted>>
    /\ UNCHANGED motorVars

\* somebody deletes the file etc/passwd outside the templates directory
RemoveOutsideFile ==
    /\ fsChanges < MaxFsChanges
    /\ fs[<<"etc", "passwd">>].kind = "file"
    /\ fs' = [fs EXCEPT ![<<"etc", "passwd">>] = NoEntry]
    /\ fsChanges' = fsChanges + 1
    /\ UNCHANGED <<projects, lock, uuidCount, calls, pc, frame, result, issued,
                   returned, aborted>>
    /\ UNCHANGED motorVars

\* ---- templates/motor_sim: emitter and viewer connections ---------------
\* connections are accepted in the order of their numbers
Accepted(v) == \A u \in Viewers : u < v => vpc[u] # "absent"

\* main.rs:47-62: a tick of the interval; the motor is updated and its
\* telemetry formatted
Tick ==
    /\ outbox = <<>>
    /\ ticks < MaxTicks
    /\ ticks' = ticks + 1
    /\ outbox' = format_as_dlt_registers(ticks + 1)
    /\ UNCHANGED <<sent, vpc, peer, rx, send_task, ws_out, emitted_before>>
    /\ UNCHANGED vars

\* main.rs:63-65: the next message of the tick is sent; send never waits,
\* the channel overwrites its oldest message
Send ==
    /\ outbox # <<>>
    /\ sent' = Append(sent, Head(outbox))
    /\ outbox' = Tail(outbox)
    /\ UNCHANGED <<ticks, vpc, peer, rx, send_task, ws_out, emitted_before>>
    /\ UNCHANGED vars

\* websocket.rs:18-22: a connection is accepted and its task spawned
Accept(v) ==
    /\ vpc[v] = "absent"
    /\ Accepted(v)
    /\ vpc' = [vpc EXCEPT ![v] = "handshake"]
    /\ peer' = [peer EXCEPT ![v] = "open"]
    /\ UNCHANGED <<ticks, outbox, sent, rx, send_task, ws_out, emitted_before>>
    /\ UNCHANGED vars

\* websocket.rs:32-38: the handshake fails and handle_connection returns
HandshakeFail(v) ==
    /\ vpc[v] = "handshake"
    /\ vpc' = [vpc EXCEPT ![v] = "returned"]
    /\ peer' = [peer EXCEPT ![v] = "closed"]
    /\ UNCHANGED <<ticks, outbox, sent, rx, send_task, ws_out, emitted_before>>
    /\ UNCHANGED vars

\* websocket.rs:32-41: the handshake succeeds and the connection subscribes
\* to the channel
HandshakeOk(v) ==
    /\ vpc[v] = "handshake"
    /\ rx' = [rx EXCEPT ![v] = subscribe(Len(sent))]
    /\ emitted_before' = [emitted_before EXCEPT ![v] = Len(sent)]
    /\ vpc' = [vpc EXCEPT ![v] = "welcome"]
    /\ UNCHANGED <<ticks, outbox, sent, peer, send_task, ws_out>>
    /\ UNCHANGED vars

\* websocket.rs:44-60: the welcome message is written (a failure of the
\* write is ignored) and the forwarding task spawned
SendWelcome(v) ==
    /\ vpc[v] = "welcome"
    /\ ws_out' = [ws_out EXCEPT ![v] =
            IF peer[v] = "open" THEN Append(@, Welcome) ELSE @]
    /\ send_task' = [send_task EXCEPT ![v] = "running"]
    /\ vpc' = [vpc EXCEPT ![v] = "serving"]
    /\ UNCHANGED <<ticks, outbox, sent, peer, rx, emitted_before>>
    /\ UNCHANGED vars

\* a forwarding loop that skips the messages it missed when recv reports
\* Lagged and goes on with the oldest message the channel retains
ForwardResuming(v) ==
    /\ send_task[v] = "running"
    /\ rx[v] <= Len(sent)
    /\ IF rx[v] <= Len(sent) - ChannelCapacity
       THEN /\ rx' = [rx EXCEPT ![v] = Len(sent) - ChannelCapacity + 1]
            /\ UNCHANGED <<send_task, ws_out>>
       ELSE /\ rx' = [rx EXCEPT ![v] = @ + 1]
            /\ IF peer[v] = "open"
               THEN /\ ws_out' = [ws_out EXCEPT ![v] = Append(@, sent[rx[v]])]
                    /\ UNCHANGED send_task
               ELSE /\ send_task' = [send_task EXCEPT ![v] = "finished"]
                    /\ UNCHANGED ws_out
    /\ UNCHANGED <<ticks, outbox, sent, vpc, peer, emitted_before>>
    /\ UNCHANGED vars

\* websocket.rs:54-59, one turn of the forwarding loop: recv yields the
\* next message, or the error Lagged when that message has been
\* overwritten; the loop ends on the error and on a failed write
Forward(v) ==
    /\ send_task[v] = "running"
    /\ rx[v] <= Len(sent)
    /\ IF rx[v] <= Len(sent) - ChannelCapacity
       THEN /\ send_task' = [send_task EXCEPT ![v] = "finished"]
            /\ UNCHANGED <<rx, ws_out>>
       ELSE /\ rx' = [rx EXCEPT ![v] = @ + 1]
            /\ IF peer[v] = "open"
               THEN /\ ws_out' = [ws_out EXCEPT ![v] = Append(@, sent[rx[v]])]
                    /\ UNCHANGED send_task
               ELSE /\ send_task' = [send_task EXCEPT ![v] = "finished"]
                    /\ UNCHANGED ws_out
    /\ UNCHANGED <<ticks, outbox, sent, vpc, peer, emitted_before>>
    /\ UNCHANGED vars

\* the viewer closes its end of the socket
PeerClose(v) ==
    /\ peer[v] = "open"
    /\ vpc[v] \in {"welcome", "serving"}
    /\ peer' = [peer EXCEPT ![v] = "closed"]
    /\ UNCHANGED <<ticks, outbox, sent, vpc, rx, send_task, ws_out,
                   emitted_before>>
    /\ UNCHANGED vars

\* websocket.rs:63-82: the read loop sees the close, the forwarding task is
\* aborted and handle_connection returns
ConnectionClosed(v) ==
    /\ vpc[v] = "serving"
    /\ peer[v] = "closed"
    /\ send_task' = [send_task EXCEPT ![v] =
            IF @ = "running" THEN "aborted" ELSE @]
    /\ vpc' = [vpc EXCEPT ![v] = "returned"]
    /\ UNCHANGED <<ticks, outbox, sent, peer, rx, ws_out, emitted_before>>
    /\ UNCHANGED vars

MotorSimNext ==
    \/ Tick
    \/ Send
    \/ \E v \in Viewers : Accept(v)
    \/ \E v \in Viewers : HandshakeFail(v)
    \/ \E v \in Viewers : HandshakeOk(v)
    \/ \E v \in Viewers : SendWelcome(v)
    \/ \E v \in Viewers : Forward(v)
    \/ \E v \in Viewers : PeerClose(v)
    \/ \E v \in Viewers : ConnectionClosed(v)


Next ==
    \/ \E p \in Handlers, n \in ProjectNames, b \in BoardIdInputs :
          CallCreate(p, n, b)
    \/ \E p \in Handlers : CreateResolveBoard(p)
    \/ \E p \in Handlers : CreateSnapshot(p)
    \/ \E p \in Handlers : CreateLockWrite(p)
    \/ \E p \in Handlers : CreateInsert(p)
    \/ \E p \in Handlers : CreateReturn(p)
    \/ \E p \in Handlers, id \in ProjectIdInputs, f \in FilePathInputs :
          CallGetFile(p, id, f)
    \/ \E p \in Handlers : GetLockRead(p)
    \/ \E p \in Handlers : GetLookup(p)
    \/ \E p \in Handlers : GetRead(p)
    \/ \E d \in BoardDirs : RemoveDescriptor(d)
    \/ \E d \in BoardDirs : RemoveTemplate(d)
    \/ RemoveOutsideFile

\* the backend, while no simulation has been started
Spec == Init /\ [][Next]_<<vars, motorVars>>

\* the steps of the operation handler p runs
HandlerStep(p) ==
    \/ CreateResolveBoard(p)
    \/ CreateSnapshot(p)
    \/ CreateLockWrite(p)
    \/ CreateInsert(p)
    \/ CreateReturn(p)
    \/ GetLockRead(p)
    \/ GetLookup(p)
    \/ GetRead(p)

\* the requests the backend serves, on a filesystem that nobody changes
ServeInit == Init /\ fs = InitialFs("b2")

ServeNext ==
    \/ \E p \in Handlers, n \in ProjectNames, b \in BoardIdInputs :
          CallCreate(p, n, b)
    \/ \E p \in Handlers, id \in ProjectIdInputs, f \in FilePathInputs :
          CallGetFile(p, id, f)
    \/ \E p \in Handlers : HandlerStep(p)

\* the backend under a fair scheduler: a handler whose next step stays
\* possible takes it (its thread runs, its filesystem call completes, a free
\* lock is granted)
FairSpec ==
    /\ ServeInit
    /\ [][ServeNext]_<<vars, motorVars>>
    /\ \A p \in Handlers : WF_<<vars, motorVars>>(HandlerStep(p))

\* ---- the catalog and the snapshot on every shape of the templates directory
\* what may be found at templates/ and at each child of it
EntryKinds == {"none", "file", "dir"}

\* what a template directory may hold at board.json: nothing, text that does
\* not parse, or a descriptor with one of the ids
DescriptorChoices == {"none", "garbage"} \cup DescriptorIds

\* the files and directories of a template besides its descriptor
OptionalPaths ==
    {q \in AllPaths : Len(q) >= 3 /\ q[1] = "templates" /\ q[3] # "board.json"}

\* the filesystem in which templates/ is of kind root, the child d of
\* templates/ of kind kind[d] with desc[d] at its board.json, and of the
\* optional paths those of present exist
ShapeFs(root, kind, desc, present) ==
    [q \in AllPaths |->
        IF q = <<>> \/ q[1] # "templates" THEN InitialFs("b1")[q]
        ELSE IF q = TemplatesDir
        THEN CASE root = "dir" -> DirEntry
               [] root = "file" -> FileEntry(<<"text">>)
               [] root = "none" -> NoEntry
        ELSE IF root # "dir" THEN NoEntry
        ELSE IF Len(q) = 2
        THEN CASE kind[q[2]] = "dir" -> DirEntry
               [] kind[q[2]] = "file" -> FileEntry(<<"text">>)
               [] kind[q[2]] = "none" -> NoEntry
        ELSE IF kind[q[2]] # "dir" THEN NoEntry
        ELSE IF q[3] = "board.json"
        THEN CASE desc[q[2]] = "none" -> NoEntry
               [] desc[q[2]] = "garbage" -> FileEntry(<<"not json">>)
               [] OTHER -> FileEntry(DescriptorJson(desc[q[2]]))
        ELSE IF q \notin present \/ (Len(q) = 4 /\ Parent(q) \notin present)
        THEN NoEntry
        ELSE InitialFs("b1")[q]]

ShapesInit ==
    /\ ProcessInit
    /\ \E root \in EntryKinds, kind \in [BoardDirs -> EntryKinds],
          desc \in [BoardDirs -> DescriptorChoices],
          present \in SUBSET OptionalPaths :
            fs = ShapeFs(root, kind, desc, present)

\* main.rs:60-63: a handler is entered with a request for the catalog
CallGetBoards(p) ==
    /\ Dispatched(p)
    /\ calls < MaxCalls
    /\ calls' = calls + 1
    /\ frame' = [frame EXCEPT ![p] = [IdleFrame EXCEPT !.op = "get_boards"]]
    /\ pc' = [pc EXCEPT ![p] = "scan"]
    /\ result' = [result EXCEPT ![p] = NoResult]
    /\ UNCHANGED <<fs, fsChanges, projects, lock, uuidCount, issued, returned,
                   aborted>>
    /\ UNCHANGED motorVars

\* main.rs:60-63: the catalog is scanned and returned
GetBoards(p) ==
    /\ pc[p] = "scan"
    /\ \E order \in ScanOrders :
          result' = [result EXCEPT ![p] = Ok(get_available_boards(fs, order))]
    /\ pc' = [pc EXCEPT ![p] = "done"]
    /\ UNCHANGED <<fs, fsChanges, projects, lock, uuidCount, calls, frame,
                   issued, returned, aborted>>
    /\ UNCHANGED motorVars

\* one request for the catalog or one create, served by the first handler
ShapesNext ==
    \/ calls = 0 /\ CallGetBoards(1)
    \/ \E n \in ProjectNames, b \in BoardIdInputs : calls = 0 /\ CallCreate(1, n, b)
    \/ GetBoards(1)
    \/ CreateResolveBoard(1)
    \/ CreateSnapshot(1)
    \/ CreateLockWrite(1)
    \/ CreateInsert(1)
    \/ CreateReturn(1)

ShapesSpec == ShapesInit /\ [][ShapesNext]_<<vars, motorVars>>

\* the motor simulation runs and the backend serves no request
TelemetryInit == Init /\ fs = InitialFs("b2")

TelemetrySpec == TelemetryInit /\ [][MotorSimNext]_<<vars, motorVars>>

\* ======================================================== properties =====
\* a relative path leaves the directory it is resolved against: followed
\* component by component from depth levels below it, it steps above it
RECURSIVE EscapesFrom(_, _)
EscapesFrom(path, depth) ==
    IF path = <<>> THEN FALSE
    ELSE IF Head(path) = ".."
         THEN depth = 0 \/ EscapesFrom(Tail(path), depth - 1)
         ELSE EscapesFrom(Tail(path), depth + 1)

Escapes(path) == EscapesFrom(path, 0)

\* the path with its ".." components and the components they cancel removed
RECURSIVE NormalizeOnto(_, _)
NormalizeOnto(acc, path) ==
    IF path = <<>> THEN acc
    ELSE IF Head(path) = ".."
         THEN NormalizeOnto(SubSeq(acc, 1, Len(acc) - 1), Tail(path))
         ELSE NormalizeOnto(acc \o <<Head(path)>>, Tail(path))

Normalize(path) == NormalizeOnto(<<>>, path)

\* handler p has completed a get_file whose lookup found a record
GotFileOf(p) ==
    /\ frame[p].op = "get_file"
    /\ pc[p] = "done"
    /\ frame[p].project # None

\* handler p has completed a create
CreateDone(p) == frame[p].op = "create" /\ pc[p] = "done"

\* ---- C1 ----------------------------------------------------------------
\* C1: every completed get_file whose path escapes the template root through
\* traversal segments has failed, whatever exists outside the root.
PathSafety ==
    \A p \in Handlers :
        (GotFileOf(p) /\ Escapes(frame[p].file_path)) => result[p].kind = "err"

\* ---- C2 ----------------------------------------------------------------
\* C2: in every interleaving a get_file either finds no record and fails
\* with "Project not found", or finds the complete record of the create
\* that generated the id: its project_name, board_id and template_path.
AtomicCreate ==
    \A p \in Handlers :
        frame[p].op = "get_file" /\ pc[p] \in {"read", "done"} =>
            IF frame[p].project = None
            THEN result[p] = Err(<<"Project not found: ", frame[p].arg_project_id>>)
            ELSE LET rec == frame[p].project[1]
                     id == frame[p].arg_project_id
                 IN  /\ id \in DOMAIN issued
                     /\ rec.project_id = id
                     /\ rec.project_name = issued[id].project_name
                     /\ rec.board_id = issued[id].board_id
                     /\ rec.template_path = issued[id].template_path

\* a get_file has found the record of a create that is still in flight
AtomicCreateWitness ==
    \E p, q \in Handlers :
        /\ frame[p].op = "get_file" /\ pc[p] = "read"
        /\ frame[q].op = "create" /\ pc[q] = "resp"
        /\ frame[p].project[1].project_id = frame[q].project_id

\* ---- C3 ----------------------------------------------------------------
\* some directory under templates/ holds a valid descriptor with this id
CatalogHasId(f, board_id) ==
    /\ f[TemplatesDir].kind = "dir"
    /\ \E d \in BoardDirs :
          /\ HasValidDescriptor(f, d)
          /\ f[TemplatePathOf(d) \o <<"board.json">>].content =
                DescriptorJson(board_id)

\* C3: whatever the interleaving of the creates, a create whose board is in
\* the catalog and whose template exists goes on to its insertion and
\* returns success, and the registry holds the record of every create that
\* has returned, under the returned id and with that create's project_name,
\* board_id and template_path.
NoLostRecords ==
    /\ [](\A i \in 1..Len(returned) :
            LET id == returned[i].project_id
            IN  /\ HashMapGet(projects, id) # None
                /\ id \in DOMAIN issued
                /\ projects[id].project_id = id
                /\ projects[id].project_name = returned[i].project_name
                /\ projects[id].board_id = returned[i].board_id
                /\ projects[id].template_path = issued[id].template_path)
    /\ [][\A p \in Handlers :
            pc'[p] # pc[p] =>
              /\ (pc[p] = "board" /\ CatalogHasId(fs, frame[p].board_id))
                    => pc'[p] = "tree"
              /\ (pc[p] = "tree" /\ fs[frame[p].template_path].kind = "dir")
                    => pc'[p] = "wlock"
              /\ pc[p] = "wlock" => pc'[p] = "insert"
              /\ pc[p] = "insert" =>
                    pc'[p] = "resp" /\ frame[p].project_id \in DOMAIN projects'
              /\ pc[p] = "resp" =>
                    /\ pc'[p] = "done"
                    /\ result'[p].kind = "ok"
                    /\ result'[p].val.project_id = frame[p].project_id
                    /\ returned' = Append(returned,
                          [project_id |-> frame[p].project_id,
                           project_name |-> frame[p].project_name,
                           board_id |-> frame[p].board_id])]_vars

\* two creates ran at the same time and both have returned: the one that
\* generated its id later returned first
NoLostRecordsWitness ==
    /\ Len(returned) = 2
    /\ returned[1].project_id > returned[2].project_id
    /\ \A p \in Handlers : CreateDone(p) /\ result[p].kind = "ok"

\* ---- C4 ----------------------------------------------------------------
\* C4: the project_ids returned by the creates of one process lifetime are
\* pairwise different, also for equal project_name and board_id, and each
\* resolves to the record of its own create.
IdsUnique ==
    \A i, j \in 1..Len(returned) :
        /\ i # j => returned[i].project_id # returned[j].project_id
        /\ LET found == HashMapGet(projects, returned[i].project_id)
           IN  /\ found # None
               /\ found[1].project_id = returned[i].project_id
               /\ found[1].project_name = returned[i].project_name
               /\ found[1].board_id = returned[i].board_id

\* two creates with the same project_name and board_id have returned
IdsUniqueWitness ==
    /\ Len(returned) = 2
    /\ returned[1].project_name = returned[2].project_name
    /\ returned[1].board_id = returned[2].board_id

\* ---- C5 ----------------------------------------------------------------
\* C5: no step removes a record from the registry or changes a field of a
\* record the registry holds.
RecordsImmutable ==
    [][\A id \in DOMAIN projects :
          id \in DOMAIN projects' /\ projects'[id] = projects[id]]_vars

\* the registry holds two records, and a create and a get_file have
\* completed since the first was inserted
RecordsImmutableWitness ==
    /\ Cardinality(DOMAIN projects) = 2
    /\ \E p \in Handlers : CreateDone(p) /\ result[p].kind = "ok"
    /\ \E p \in Handlers : GotFileOf(p)

\* ---- C6 ----------------------------------------------------------------
\* C6 as stated: no lookup has found the record of an id whose create has
\* not yet returned it.
LookupOnlyAfterReturn ==
    \A p, q \in Handlers :
        (/\ frame[p].op = "get_file" /\ frame[p].project # None
         /\ frame[q].op = "create"
         /\ pc[q] \in {"tree", "wlock", "insert", "resp"})
        => frame[p].project[1].project_id # frame[q].project_id

\* C6 as amended: no lookup has found the record of an id whose create has
\* not yet inserted it; the insertion precedes the return of the id.
LookupOnlyAfterInsert ==
    /\ \A p, q \in Handlers :
        (/\ frame[p].op = "get_file" /\ frame[p].project # None
         /\ frame[q].op = "create"
         /\ pc[q] \in {"tree", "wlock", "insert"})
        => frame[p].project[1].project_id # frame[q].project_id
    /\ \A q \in Handlers :
        frame[q].op = "create" /\ pc[q] \in {"tree", "wlock", "insert"}
        => frame[q].project_id \notin DOMAIN projects

\* a get_file has completed successfully on an id that its create has
\* inserted and not yet returned
LookupOnlyAfterInsertWitness ==
    \E p, q \in Handlers :
        /\ GotFileOf(p) /\ result[p].kind = "ok"
        /\ frame[q].op = "create" /\ pc[q] = "resp"
        /\ frame[p].project[1].project_id = frame[q].project_id

\* ---- C7 ----------------------------------------------------------------
\* C7: a create whose board_id matches no catalog entry returns "Board not
\* found" in the step that resolves the board, which leaves the registry
\* as it was; the failed create has generated no id and inserts nothing.
UnknownBoardFails ==
    /\ [][\A p \in Handlers :
            (/\ pc[p] = "board" /\ pc'[p] # "board"
             /\ ~CatalogHasId(fs, frame[p].board_id))
            => /\ pc'[p] = "done"
               /\ result'[p] = Err(<<"Board not found: ", frame[p].board_id>>)
               /\ projects' = projects]_vars
    /\ [](\A p \in Handlers :
            CreateDone(p) /\ result[p].kind = "err"
            /\ result[p].err[1] = "Board not found: "
            => frame[p].project_id = 0 /\ frame[p].template_path = <<>>)

\* a create has failed with "Board not found" while the registry holds a
\* record
UnknownBoardFailsWitness ==
    \E p \in Handlers :
        /\ CreateDone(p)
        /\ result[p] = Err(<<"Board not found: ", frame[p].board_id>>)
        /\ DOMAIN projects # {}

\* ---- C8 ----------------------------------------------------------------
\* C8: a create whose board resolved and whose template root is gone when
\* the snapshot is taken returns a failure in that step, which leaves the
\* registry as it was; the id of a failed create is in the registry in no
\* later state.
SnapshotFailureAborts ==
    /\ [][\A p \in Handlers :
            (/\ pc[p] = "tree" /\ pc'[p] # "tree"
             /\ fs[frame[p].template_path].kind = "none")
            => /\ pc'[p] = "done"
               /\ result'[p] = Err(<<"Template path does not exist: ",
                                     frame[p].template_path>>)
               /\ projects' = projects]_vars
    /\ [](aborted \cap DOMAIN projects = {})
    /\ [](\A p \in Handlers :
            CreateDone(p) /\ result[p].kind = "err"
            => frame[p].project_id \notin DOMAIN projects)

\* a create has failed on the snapshot after its board had resolved, while
\* the registry holds a record
SnapshotFailureAbortsWitness ==
    \E p \in Handlers :
        /\ CreateDone(p)
        /\ result[p].kind = "err"
        /\ result[p].err[1] = "Template path does not exist: "
        /\ frame[p].project_id \in aborted
        /\ DOMAIN projects # {}

\* ---- C9 ----------------------------------------------------------------
\* C9: a get_file whose project_id is not in the registry at the lookup
\* returns "Project not found" in that step, for every path, leaving the
\* registry and the filesystem as they were; it has opened no file.
UnknownProjectFails ==
    /\ [][\A p \in Handlers :
            (/\ pc[p] = "lookup" /\ pc'[p] # "lookup"
             /\ frame[p].arg_project_id \notin DOMAIN projects)
            => /\ pc'[p] = "done"
               /\ result'[p] =
                     Err(<<"Project not found: ", frame[p].arg_project_id>>)
               /\ frame'[p].opened = None
               /\ projects' = projects
               /\ fs' = fs]_vars
    /\ [](\A p \in Handlers :
            (/\ frame[p].op = "get_file" /\ pc[p] = "done"
             /\ result[p].kind = "err"
             /\ result[p].err[1] = "Project not found: ")
            => frame[p].opened = None /\ frame[p].project = None)

\* a get_file with an escaping path has failed with "Project not found"
\* while the registry holds a record
UnknownProjectFailsWitness ==
    \E p \in Handlers :
        /\ frame[p].op = "get_file" /\ pc[p] = "done"
        /\ result[p] = Err(<<"Project not found: ", frame[p].arg_project_id>>)
        /\ Escapes(frame[p].file_path)
        /\ DOMAIN projects # {}

\* ---- C10 ---------------------------------------------------------------
\* the positions of content at which the placeholder token starts
Occurrences(content) ==
    {i \in 1..Len(content) :
        /\ i + Len(Placeholder) - 1 <= Len(content)
        /\ SubSeq(content, i, i + Len(Placeholder) - 1) = Placeholder}

\* rendered is content with each occurrence of the placeholder token
\* replaced by name and everything else kept, position by position
IsRendering(content, name, rendered) ==
    LET occ == Occurrences(content)
        grow == Len(name) - Len(Placeholder)
        Shift(j) == Cardinality({i \in occ : i < j}) * grow
        Covered(j) == \E i \in occ : i <= j /\ j < i + Len(Placeholder)
    IN  /\ Len(rendered) = Len(content) + Cardinality(occ) * grow
        /\ \A j \in 1..Len(content) :
              /\ ~Covered(j) => rendered[j + Shift(j)] = content[j]
              /\ j \in occ =>
                    SubSeq(rendered, j + Shift(j), j + Shift(j) + Len(name) - 1)
                        = name

\* C10: a completed get_file of a path without traversal segments whose
\* file exists under the template root has returned the content of that file with every occurrence of
\* {{PROJECT_NAME}} replaced by the name given to the create, the result not
\* being substituted again; name "Foo" and content "Hello {{PROJECT_NAME}}"
\* give "Hello Foo".
RenderRoundTrip ==
    \A p \in Handlers :
        GotFileOf(p) /\ Normalize(frame[p].file_path) = frame[p].file_path =>
            LET id == frame[p].arg_project_id
                name == issued[id].project_name
                file == issued[id].template_path \o frame[p].file_path
            IN  (file \in AllPaths /\ fs[file].kind = "file") =>
                    /\ result[p].kind = "ok"
                    /\ IsRendering(fs[file].content, name, result[p].val)
                    /\ (/\ name = <<"Foo">>
                        /\ fs[file].content = <<"Hello ", "{{", "PROJECT_NAME", "}}">>)
                       => result[p].val = <<"Hello ", "Foo">>

\* a get_file has rendered a file with two occurrences of the token for a
\* project whose name joins the text around it into a further token
RenderRoundTripWitness ==
    \E p \in Handlers :
        /\ GotFileOf(p)
        /\ frame[p].file_path = <<"b.txt">>
        /\ result[p] = Ok(<<"PROJECT_NAME", "}}", "PROJECT_NAME", "}}",
                             "{{", "PROJECT_NAME">>)

\* ---- C11 ---------------------------------------------------------------
\* the filesystem f with the file outside the templates directory present
WithOutsideFile(f) ==
    [f EXCEPT ![<<"etc", "passwd">>] = FileEntry(<<"root:x:0">>)]

\* the filesystem f with the file outside the templates directory absent
WithoutOutsideFile(f) == [f EXCEPT ![<<"etc", "passwd">>] = NoEntry]

\* C11: a get_file whose path escapes the template root opens no file, and
\* its outcome is the same on two filesystems that agree inside the template
\* root and differ only in whether the file outside the root exists.
NonDisclosure ==
    \A p \in Handlers :
        /\ (GotFileOf(p) /\ Escapes(frame[p].file_path)) =>
                frame[p].opened = None
        /\ (/\ frame[p].op = "get_file"
            /\ pc[p] = "read"
            /\ Escapes(frame[p].file_path)) =>
                LET project == frame[p].project[1]
                IN  get_template_file_content(WithOutsideFile(fs),
                        project.template_path, frame[p].file_path,
                        project.project_name)
                    = get_template_file_content(WithoutOutsideFile(fs),
                        project.template_path, frame[p].file_path,
                        project.project_name)

\* ---- C12 ---------------------------------------------------------------
\* main.rs:74-84, the create_project handler: the status of the response
\* to a create whose registry call returned res
create_project(res) ==
    IF res.kind = "ok" THEN "OK" ELSE "INTERNAL_SERVER_ERROR"

\* main.rs:96-106, the get_project_file handler: the status of the response
\* to a file request whose registry call returned res
get_project_file(res) ==
    IF res.kind = "ok" THEN "OK" ELSE "NOT_FOUND"

\* the status of the response the facade sends for the completed call of p
HttpStatus(p) ==
    IF frame[p].op = "create" THEN create_project(result[p])
    ELSE get_project_file(result[p])

\* the call of handler p has failed with an error of this kind
FailedWith(p, what) ==
    /\ pc[p] = "done"
    /\ result[p].kind = "err"
    /\ result[p].err[1] = what

\* the failure of p is caused by the caller: unknown board, unknown project
\* or a path that escapes the template root
CallerError(p) ==
    \/ FailedWith(p, "Board not found: ")
    \/ FailedWith(p, "Project not found: ")
    \/ FailedWith(p, "Failed to read file ") /\ Escapes(frame[p].file_path)

\* the failure of p is caused by the server: the template root of a board
\* of the catalog is missing on disk
ServerError(p) == FailedWith(p, "Template path does not exist: ")

\* C12: at the facade an unknown board and an unknown project both give a
\* response of the "not found" class, and no failure caused by the caller
\* gets the response class of a failure caused by the server.
BoundaryErrorMapping ==
    /\ \A p \in Handlers :
          (\/ FailedWith(p, "Board not found: ")
           \/ FailedWith(p, "Project not found: ")) =>
                HttpStatus(p) = "NOT_FOUND"
    /\ \A p, q \in Handlers :
          CallerError(p) /\ ServerError(q) => HttpStatus(p) # HttpStatus(q)

\* ---- C13 ---------------------------------------------------------------
\* C13: a create holds no lock of the registry while it resolves the board
\* and takes the snapshot; it holds the write lock only for the insertion,
\* after the board was resolved and the snapshot taken, and has released it
\* before it builds its response.
CreateLockDiscipline ==
    \A p \in Handlers :
        frame[p].op = "create" =>
            /\ p \notin lock.readers
            /\ lock.writer = p <=> pc[p] = "insert"
            /\ lock.writer = p =>
                  /\ frame[p].project_id \in DOMAIN issued
                  /\ frame[p].project_id \notin aborted
                  /\ frame[p].project_id \notin DOMAIN projects
                  /\ frame[p].template_path = issued[frame[p].project_id].template_path

\* a create holds the write lock while another create takes its snapshot
CreateLockDisciplineWitness ==
    \E p, q \in Handlers :
        /\ frame[p].op = "create" /\ pc[p] = "insert" /\ lock.writer = p
        /\ frame[q].op = "create" /\ pc[q] = "tree"

\* ---- C14 ---------------------------------------------------------------
\* the telemetry messages written to the socket of viewer v, in order
Telemetry(v) == SelectSeq(ws_out[v], LAMBDA m : m # Welcome)

\* viewer v has subscribed and both ends of its connection are open
Connected(v) == vpc[v] \in {"welcome", "serving"} /\ peer[v] = "open"

\* what viewer v has received is a gapless run of the messages sent after it
\* subscribed, in the order of emission, each once, after the welcome
NoReplayNoGap(v) ==
    LET got == Telemetry(v)
    IN  /\ emitted_before[v] + Len(got) <= Len(sent)
        /\ got = SubSeq(sent, emitted_before[v] + 1, emitted_before[v] + Len(got))
        /\ \A i \in 1..Len(ws_out[v]) : ws_out[v][i] = Welcome => i = 1

\* the forwarding of viewer v is at rest: no message waits to be forwarded
AtRest(v) ==
    /\ vpc[v] = "serving"
    /\ ~(send_task[v] = "running" /\ rx[v] <= Len(sent))

\* viewer v has received every message sent since it subscribed
ReceivedAll(v) == Len(Telemetry(v)) = Len(sent) - emitted_before[v]

\* C14: every connected viewer receives every message emitted after it
\* connected, in emission order, without gaps or duplicates, and no message
\* emitted before it connected: what it has received is such a run, and is
\* all of it whenever its forwarding is at rest.
FanOutEveryViewer ==
    \A v \in Viewers :
        /\ NoReplayNoGap(v)
        /\ Connected(v) /\ AtRest(v) => ReceivedAll(v)

\* what the forwarding loop does guarantee: the run a viewer has received
\* is complete whenever its forwarding task is still running and at rest,
\* and a connected viewer whose task has finished, having fallen more than
\* the channel capacity behind, has missed messages.
FanOut ==
    \A v \in Viewers :
        /\ NoReplayNoGap(v)
        /\ (Connected(v) /\ AtRest(v) /\ send_task[v] = "running")
              => ReceivedAll(v)
        /\ (Connected(v) /\ send_task[v] = "finished") => ~ReceivedAll(v)

\* two viewers that connected at different points of the emission have each
\* received everything emitted since, and nothing emitted before
FanOutWitness ==
    /\ \A v \in Viewers : Connected(v) /\ AtRest(v) /\ send_task[v] = "running"
    /\ emitted_before[1] > 0
    /\ emitted_before[2] > emitted_before[1]
    /\ Len(Telemetry(2)) >= 2
    /\ Len(sent) = Len(Registers)

\* ---- C15 ---------------------------------------------------------------
\* C15: a project keeps the template root captured when it was created: once
\* the descriptor of its board is gone from the catalog, a lookup of the
\* project still finds its record, without consulting the catalog, and a
\* read of an existing file under the stored template root still succeeds
\* with the rendered content.
CapturedAtCreation ==
    [][\A p \in Handlers :
          LET id == frame[p].arg_project_id
          IN  /\ (/\ pc[p] = "lookup" /\ pc'[p] # "lookup"
                  /\ id \in DOMAIN projects
                  /\ ~CatalogHasId(fs, projects[id].board_id)) =>
                     /\ pc'[p] = "read"
                     /\ frame'[p].project = Some(projects[id])
                     /\ projects[id].template_path = issued[id].template_path
              /\ (/\ pc[p] = "read" /\ pc'[p] = "done"
                  /\ ~CatalogHasId(fs, issued[id].board_id)
                  /\ Normalize(frame[p].file_path) = frame[p].file_path) =>
                     LET file == issued[id].template_path \o frame[p].file_path
                     IN  (file \in AllPaths /\ fs[file].kind = "file") =>
                            /\ result'[p].kind = "ok"
                            /\ IsRendering(fs[file].content,
                                   issued[id].project_name, result'[p].val)
      ]_vars

\* a get_file on a project has succeeded, the descriptor of the project's
\* board is gone and a new create for that board has failed
CapturedAtCreationWitness ==
    \E p, q \in Handlers :
        /\ GotFileOf(p)
        /\ result[p].kind = "ok"
        /\ ~CatalogHasId(fs, frame[p].project[1].board_id)
        /\ frame[q].op = "create"
        /\ frame[q].board_id = frame[p].project[1].board_id
        /\ FailedWith(q, "Board not found: ")

ScanHits(f, order, board_id) ==
    {i \in DOMAIN order :
        /\ f[TemplatesDir].kind = "dir"
        /\ HasValidDescriptor(f, order[i])
        /\ ParseBoardConfig(
              f[TemplatePathOf(order[i]) \o <<"board.json">>].content)
           = Some(board_id)}

FirstOf(S) == CHOOSE i \in S : \A j \in S : i <= j
LastOf(S) == CHOOSE i \in S : \A j \in S : j <= i

\* two directories hold valid descriptors with this id
IsDuplicated(f, board_id) ==
    \E order \in ScanOrders : Cardinality(ScanHits(f, order, board_id)) > 1

\* the statement of the claim as written: an id is resolved to the
\* directory scanned last among those whose descriptor carries it
DuplicateResolvesToLast ==
    \A order \in ScanOrders, id \in BoardIdInputs :
        LET hits == ScanHits(fs, order, id)
        IN  hits # {} =>
              /\ get_board_by_id(fs, order, id) # None
              /\ get_board_by_id(fs, order, id)[1].template_path
                    = TemplatePathOf(order[LastOf(hits)])

\* C17: when several template directories carry valid descriptors with the
\* same id, get_board_by_id resolves the id to the first of them in the order
\* of the scan, and the template_path a create stores is that of the
\* first-scanned directory of some scan.
DuplicateResolvesToFirst ==
    /\ [](\A order \in ScanOrders, id \in BoardIdInputs :
            LET hits == ScanHits(fs, order, id)
            IN  hits # {} =>
                  /\ get_board_by_id(fs, order, id) # None
                  /\ get_board_by_id(fs, order, id)[1].id = id
                  /\ get_board_by_id(fs, order, id)[1].template_path
                        = TemplatePathOf(order[FirstOf(hits)]))
    /\ [][\A p \in Handlers :
            (pc[p] = "board" /\ pc'[p] = "tree") =>
                \E order \in ScanOrders :
                    LET hits == ScanHits(fs, order, frame[p].board_id)
                    IN  /\ hits # {}
                        /\ frame'[p].template_path
                              = TemplatePathOf(order[FirstOf(hits)])]_vars

\* a create has resolved an id carried by the descriptors of both
\* directories, to the directory that a scan in reverse name order meets first
DuplicateResolvesToFirstWitness ==
    \E p \in Handlers :
        /\ frame[p].op = "create"
        /\ pc[p] = "tree"
        /\ IsDuplicated(fs, frame[p].board_id)
        /\ frame[p].template_path = TemplatePathOf("stm32")

\* ---- C18 ---------------------------------------------------------------
\* the child d of templates/ is a directory that holds a readable descriptor
\* which parses, with this id
IsBoardDir(f, d, id) ==
    /\ f[TemplatesDir].kind = "dir"
    /\ f[TemplatePathOf(d)].kind = "dir"
    /\ id \in DescriptorIds
    /\ f[TemplatePathOf(d) \o <<"board.json">>] = FileEntry(DescriptorJson(id))

\* handler p has completed a request for the catalog
ListedBoards(p) == frame[p].op = "get_boards" /\ pc[p] = "done"

\* C18: for every shape of the templates directory a listing succeeds and
\* holds exactly one entry for each immediate subdirectory with a readable,
\* parsable descriptor, carrying the id of the descriptor, and no entry for
\* any other child: a plain file, a directory without descriptor, a directory
\* whose descriptor does not parse; it is empty when templates/ cannot be read.
CatalogListing ==
    \A p \in Handlers :
        ListedBoards(p) =>
            /\ result[p].kind = "ok"
            /\ LET boards == result[p].val
               IN  /\ \A d \in BoardDirs, id \in DescriptorIds :
                         IsBoardDir(fs, d, id) =>
                            Cardinality({i \in DOMAIN boards :
                                boards[i].template_path = TemplatePathOf(d)}) = 1
                   /\ \A i \in DOMAIN boards :
                         \E d \in BoardDirs :
                            /\ boards[i].template_path = TemplatePathOf(d)
                            /\ IsBoardDir(fs, d, boards[i].id)
                   /\ fs[TemplatesDir].kind # "dir" => boards = <<>>

\* a listing has returned the one board of a templates directory whose other
\* child is a directory with a descriptor that does not parse
CatalogListingWitness ==
    \E p \in Handlers :
        /\ ListedBoards(p)
        /\ Len(result[p].val) = 1
        /\ result[p].val[1].template_path = TemplatePathOf("stm32")
        /\ fs[TemplatePathOf("motor_sim") \o <<"board.json">>]
              = FileEntry(<<"not json">>)

\* ---- C19 ---------------------------------------------------------------
\* the names of the nodes of a list of siblings, in order
NamesOf(nodes) == [i \in DOMAIN nodes |-> nodes[i].name]

\* nodes is the snapshot of directory dir of f: one node per existing entry,
\* siblings in ascending order of their names whatever their type, a file
\* without children and a directory with the snapshot of its entries
RECURSIVE IsSnapshotOf(_, _, _)
IsSnapshotOf(f, nodes, dir) ==
    /\ Len(nodes) = Cardinality(Children(f, dir))
    /\ \A q \in Children(f, dir) : \E i \in DOMAIN nodes : nodes[i].name = FileName(q)
    /\ \A i, j \in DOMAIN nodes :
          i < j => NameRank(nodes[i].name) < NameRank(nodes[j].name)
    /\ \A i \in DOMAIN nodes :
          LET q == dir \o <<nodes[i].name>>
          IN  /\ q \in Children(f, dir)
              /\ nodes[i].is_directory = (f[q].kind = "dir")
              /\ IF f[q].kind = "dir"
                 THEN /\ nodes[i].children # None
                      /\ IsSnapshotOf(f, nodes[i].children[1], q)
                 ELSE nodes[i].children = None

\* handler p runs a create that has taken its snapshot
HasSnapshot(p) ==
    frame[p].op = "create" /\ pc[p] \in {"wlock", "insert", "resp"}

\* C19: in the snapshot a create takes, the siblings at every depth are in
\* ascending order of their names with directories and files interleaved,
\* files carry no children and directories carry the list of theirs: the
\* entries b.txt, a.txt, board.json and the directory Z come out as Z, a.txt,
\* b.txt, board.json, and the directory src comes out after the files a.txt
\* and board.json.
SnapshotOrdering ==
    \A p \in Handlers :
        HasSnapshot(p) =>
            LET tree == frame[p].file_tree
                root == frame[p].template_path
                names == {FileName(q) : q \in Children(fs, root)}
            IN  /\ IsSnapshotOf(fs, tree, root)
                /\ (names = {"b.txt", "a.txt", "Z", "board.json"}
                    /\ fs[root \o <<"Z">>].kind = "dir")
                      => NamesOf(tree) = <<"Z", "a.txt", "b.txt", "board.json">>
                /\ (names = {"src", "a.txt", "board.json"}
                    /\ fs[root \o <<"src">>].kind = "dir")
                      => NamesOf(tree) = <<"a.txt", "board.json", "src">>

\* creates have taken the snapshot of a template whose directory Z comes
\* before its files, holding a file of its own
SnapshotOrderingWitness ==
    \E p \in Handlers :
        /\ HasSnapshot(p)
        /\ NamesOf(frame[p].file_tree) = <<"Z", "a.txt", "b.txt", "board.json">>
        /\ frame[p].file_tree[1].children = Some(<<
              [name |-> "main.rs", path |-> <<"Z", "main.rs">>,
               is_directory |-> FALSE, children |-> None]>>)
        /\ frame[p].file_tree[2].children = None

\* ---- C20 ---------------------------------------------------------------
\* handler p is inside the file read of a get_file that found its project
InFileRead(p) == frame[p].op = "get_file" /\ pc[p] = "read"

\* C20: a get_file holds the read lock of the registry from its lookup until
\* its file is read and rendered, so no create performs its insertion, or
\* holds the write lock, while a get_file on a known project is inside its
\* file read.
ReadLockSpansFileRead ==
    /\ [](\A p \in Handlers :
            frame[p].op = "get_file" =>
                (p \in lock.readers <=> pc[p] \in {"lookup", "read"}))
    /\ [](\A p, q \in Handlers :
            InFileRead(p) => (pc[q] # "insert" /\ lock.writer = 0))
    /\ [][\A p, q \in Handlers :
            InFileRead(p) => projects' = projects]_vars

\* every handler is inside the file read of a get_file at the same time,
\* each holding the read lock
ReadLockSpansFileReadWitness ==
    /\ \A p \in Handlers : InFileRead(p) /\ p \in lock.readers
    /\ Cardinality(lock.readers) = NumHandlers

\* ---- C21 ---------------------------------------------------------------
\* the number of messages sent since viewer v subscribed that have not been
\* written to its socket
Behind(v) == Len(sent) - emitted_before[v] - Len(Telemetry(v))

\* the messages of the ticks 1..n, five per tick, in the order of emission
RECURSIVE MessagesOfTicks(_)
MessagesOfTicks(n) ==
    IF n = 0 THEN <<>>
    ELSE MessagesOfTicks(n - 1) \o
         <<<<"REG", "SPEED", n>>, <<"REG", "TORQUE", n>>, <<"REG", "TEMP", n>>,
           <<"REG", "CURRENT", n>>, <<"REG", "STATUS", n>>>>

\* C21: the emitter never waits for viewers: whatever the viewers do, the
\* next tick and the next send are possible, and the five register messages
\* of every tick are sent; a viewer whose forwarding task meets a message
\* more than the channel capacity behind has the task ended by that first
\* lag error, keeps its connection, and receives no telemetry from then on,
\* while a viewer within the capacity is forwarded the next message.
EmitterNeverWaits ==
    /\ [](/\ outbox # <<>> => ENABLED Send
          /\ (outbox = <<>> /\ ticks < MaxTicks) => ENABLED Tick
          /\ sent \o outbox = MessagesOfTicks(ticks))
    /\ [][\A v \in Viewers :
            /\ (sent' # sent) =>
                  /\ sent' = Append(sent, Head(outbox))
                  /\ send_task'[v] = send_task[v]
                  /\ vpc'[v] = vpc[v]
            /\ (/\ send_task[v] = "running" /\ peer[v] = "open"
                /\ <<rx[v], send_task[v], ws_out[v]>>
                      # <<rx'[v], send_task'[v], ws_out'[v]>>
                /\ vpc'[v] = vpc[v] /\ peer'[v] = peer[v]) =>
                  IF Behind(v) > ChannelCapacity
                  THEN /\ send_task'[v] = "finished"
                       /\ ws_out'[v] = ws_out[v]
                       /\ vpc'[v] = "serving"
                  ELSE /\ send_task'[v] = "running"
                       /\ Len(ws_out'[v]) = Len(ws_out[v]) + 1
            /\ (send_task[v] = "finished") =>
                  /\ ws_out'[v] = ws_out[v]
                  /\ send_task'[v] = "finished"
                  /\ (peer[v] = "open" /\ peer'[v] = "open") => vpc'[v] = "serving"
       ]_motorVars

\* a viewer that had received a message fell more than the capacity behind:
\* its forwarding task has finished, its connection is open, and the
\* emitter has sent all the messages of its ticks
EmitterNeverWaitsWitness ==
    \E v \in Viewers :
        /\ send_task[v] = "finished"
        /\ vpc[v] = "serving"
        /\ peer[v] = "open"
        /\ Len(Telemetry(v)) >= 1
        /\ Behind(v) > ChannelCapacity
        /\ ticks = MaxTicks
        /\ outbox = <<>>

====
